---- MODULE Spec2Model ----
(***************************************************************************)
(* Cycle-level model of luna/gateware/usb/usb2/endpoints/stream.py.         *)
(*                                                                         *)
(* Every action is one clock edge of the "usb" domain.  The combinational  *)
(* signals of USBStreamOutEndpoint.elaborate are operators over the        *)
(* registered state and the inputs sampled in that cycle (the record `in`);*)
(* Clock(in) applies every synchronous assignment of the endpoint and of   *)
(* the FIFO it instantiates.  The transaction layer (tokenizer, receive    *)
(* stream, response strobes) and the consumer are the environment.         *)
(***************************************************************************)
EXTENDS Integers, Sequences, FiniteSets, TLC

\* ---------------------------------------------------------------- bounds
MaxPacketSize == 2
MaxPackets    == 3
ByteWidth     == 2      \* bytes per word of the multibyte IN endpoint
MaxWords      == 3      \* words the producer of the word stream presents
MaxTransfers  == 3      \* transfers the producer of the IN byte stream makes

\* ---------------------------------------------------------- configuration
EndpointNumber == 1
BufferSize     == MaxPacketSize * 2
Endpoints      == {EndpointNumber, EndpointNumber + 1}

VARIABLES
    \* USBStreamOutEndpoint registers
    expected_data_toggle,   \* 0 / 1
    is_first_byte,          \* BOOLEAN
    \* TransactionalizedFIFO contents
    fifo_committed,         \* entries visible to the reader, oldest first
    fifo_pending,           \* speculative entries of the packet being received
    \* USBOutStreamBoundaryDetector
    bd_first,               \* the next byte is the first one of a packet
    \* transaction layer (environment)
    token,                  \* [endpoint, kind]: the tokenizer's current token
    rx_pid_toggle,          \* DATA PID of the current data packet
    phase,                  \* "IDLE", "DATA", "HANDSHAKE", "PING"
    rx_len,                 \* length of the data packet now on the rx stream
    sent,                   \* bytes of that packet already on the rx stream
    \* observation
    resp,                   \* the handshake outputs of the last cycle
    npkts,                  \* number of OUT data packets sent to this endpoint so far
    pkt,                    \* the latest of them: what was sent and how it ended
    accepted_count,         \* number of those packets the endpoint accepted
    delivered,              \* tokens transferred on the consumer stream
    committed_log           \* entries committed to the FIFO, in commit order

VARIABLES
    \* USBMultibyteStreamInEndpoint registers
    mb_state,               \* FSM state: "IDLE" / "TRANSMIT"
    data_shift,             \* the word being shifted out, ByteWidth * 8 bits
    first_latched,          \* BOOLEAN
    last_latched,           \* BOOLEAN
    bytes_to_send,          \* bytes of the word still to send after the presented one
    \* producer of the word stream (environment)
    word,                   \* [valid, payload, first, last] presented this cycle
    \* observation
    mb_words,               \* words transferred on the word stream
    mb_bytes,               \* tokens transferred on the inner byte stream
    mb_sig                  \* the adapter's signals in the last cycle

VARIABLES
    \* USBInTransferManager state of USBStreamInEndpoint
    tx_fill,                \* bytes buffered for the packet being filled
    tx_packet,              \* [waiting, len, ends]: the packet ready for the host
    \* observation
    tx_len,                 \* bytes of the current transfer taken from the stream
    tx_lens,                \* lengths of the transfers the stream has ended
    tx_sent                 \* lengths of the data packets the host has ACKed

out_vars == << expected_data_toggle, is_first_byte, fifo_committed, fifo_pending,
               bd_first, token, rx_pid_toggle, phase, rx_len, sent, resp, npkts, pkt,
               accepted_count, delivered, committed_log >>

mb_vars == << mb_state, data_shift, first_latched, last_latched, bytes_to_send,
              word, mb_words, mb_bytes, mb_sig >>

tx_vars == << tx_fill, tx_packet, tx_len, tx_lens, tx_sent >>

vars == << out_vars, mb_vars, tx_vars >>

\* ------------------------------------------------------------- data bytes
\* Byte i (1-based) of the k-th packet sent to this endpoint (k = 0: a packet
\* for another endpoint); distinct for distinct (k, i).
Payload(k, i) == (k * (MaxPacketSize + 1) + i) % 256
PacketOf(p)   == p \div (MaxPacketSize + 1)

\* ------------------------------------------------------------ FIFO (memory.py)
JunkEntry == [data |-> 0, bit8 |-> FALSE, bit9 |-> FALSE]

fifo_empty           == fifo_committed = << >>
fifo_level           == Len(fifo_committed) + Len(fifo_pending)
fifo_space_available == BufferSize - fifo_level
fifo_full            == fifo_space_available = 0
fifo_read_data       == IF fifo_empty THEN JunkEntry ELSE Head(fifo_committed)

\* ------------------------------------------------- boundary detector (stream.py)
rx_first     == bd_first
rx_last(in)  == in.rx_last

\* ----------------------------------------- USBStreamOutEndpoint.elaborate
is_out  == token.kind = "OUT"
is_ping == token.kind = "PING"

endpoint_number_matches == token.endpoint = EndpointNumber
\* Variant of targeting_endpoint that does not look at the endpoint number.
targeting_any_endpoint == is_out

targeting_endpoint      == endpoint_number_matches /\ is_out

expected_pid_match == rx_pid_toggle = expected_data_toggle
sufficient_space   == fifo_space_available >= MaxPacketSize

ping_response_requested(in) ==
    endpoint_number_matches /\ is_ping /\ in.ready_for_response
data_response_requested(in) ==
    targeting_endpoint /\ is_out /\ in.rx_ready_for_response

\* Variants of okay_to_receive that leave one of its conditions out.
okay_to_receive_any_pid   == targeting_endpoint /\ sufficient_space
okay_to_receive_any_space == targeting_endpoint /\ expected_pid_match

okay_to_receive == targeting_endpoint /\ sufficient_space /\ expected_pid_match
should_skip     == targeting_endpoint /\ ~expected_pid_match

write_data(in) == [data |-> in.rx_payload, bit8 |-> rx_last(in), bit9 |-> rx_first]
write_en(in)   == okay_to_receive /\ in.rx_next /\ in.rx_valid

\* Variant of write_commit that keeps the data whatever the CRC said.
write_commit_any_end(in) == targeting_endpoint /\ (in.complete_out \/ in.invalid_out)

write_commit(in)  == targeting_endpoint /\ in.complete_out
\* Variant of write_discard that never rolls a packet back.
write_discard_never(in) == FALSE

write_discard(in) == targeting_endpoint /\ in.invalid_out

handshakes_out_ack(in) ==
    \/ (data_response_requested(in) /\ okay_to_receive)
    \/ (ping_response_requested(in) /\ okay_to_receive)
    \/ (data_response_requested(in) /\ should_skip)

handshakes_out_nak(in) ==
    \/ (data_response_requested(in) /\ ~okay_to_receive /\ ~should_skip)
    \/ (ping_response_requested(in) /\ ~okay_to_receive)

stream_valid   == ~fifo_empty
stream_payload == fifo_read_data.data
stream_last    == fifo_read_data.bit8
stream_first   == fifo_read_data.bit9

\* Variant of read_en that advances the FIFO whether or not the consumer is ready.
read_en_always(in) == TRUE

read_en(in) == in.stream_ready

\* Variant of the toggle update that flips on every PING answer as well.
next_toggle_on_ping(in) ==
    IF (data_response_requested(in) /\ okay_to_receive) \/ ping_response_requested(in)
    THEN 1 - expected_data_toggle
    ELSE expected_data_toggle

\* Variant of the toggle update that flips on every ACKed data packet.
next_toggle_on_any_ack(in) ==
    IF data_response_requested(in) /\ handshakes_out_ack(in)
    THEN 1 - expected_data_toggle
    ELSE expected_data_toggle

next_expected_data_toggle(in) ==
    IF data_response_requested(in) /\ okay_to_receive
    THEN 1 - expected_data_toggle
    ELSE expected_data_toggle

next_is_first_byte(in) ==
    IF stream_valid /\ in.stream_ready THEN stream_last ELSE is_first_byte

\* ------------------------------------------------------- FIFO, one clock edge
FifoWritten(in) ==
    IF write_en(in) /\ ~fifo_full
    THEN Append(fifo_pending, write_data(in))
    ELSE fifo_pending

FifoAfterRead(in) ==
    IF read_en(in) /\ ~fifo_empty THEN Tail(fifo_committed) ELSE fifo_committed

FifoNextCommitted(in) ==
    IF write_commit(in)
    THEN FifoAfterRead(in) \o fifo_pending
    ELSE FifoAfterRead(in)

FifoNextPending(in) ==
    IF write_discard(in) THEN << >>
    ELSE IF write_commit(in)
         THEN SubSeq(FifoWritten(in), Len(fifo_pending) + 1, Len(FifoWritten(in)))
         ELSE FifoWritten(in)

\* ------------------------------------------------------------------ inputs
Quiet(r) ==
    [ rx_valid |-> FALSE, rx_next |-> FALSE, rx_payload |-> 0, rx_last |-> FALSE,
      complete_out |-> FALSE, invalid_out |-> FALSE,
      rx_ready_for_response |-> FALSE, ready_for_response |-> FALSE,
      stream_ready |-> r ]

\* What the endpoint answered in a cycle, with the conditions it decided on.
NoResponse ==
    [ kind |-> "none", ack |-> FALSE, nak |-> FALSE, space_ok |-> FALSE, pid_ok |-> FALSE ]

Response(in) ==
    IF in.rx_ready_for_response \/ in.ready_for_response
    THEN [ kind     |-> IF in.rx_ready_for_response THEN "data" ELSE "ping",
           ack      |-> handshakes_out_ack(in),
           nak      |-> handshakes_out_nak(in),
           space_ok |-> sufficient_space,
           pid_ok   |-> expected_pid_match ]
    ELSE [ NoResponse EXCEPT !.ack = handshakes_out_ack(in),
                             !.nak = handshakes_out_nak(in) ]

StreamToken == [payload |-> stream_payload, first |-> stream_first, last |-> stream_last]

\* One clock edge of the endpoint and its FIFO under the inputs `in`.  The IN
\* endpoints are other modules: nothing of them changes.
Clock(in) ==
    /\ UNCHANGED << mb_vars, tx_vars >>
    /\ expected_data_toggle' = next_expected_data_toggle(in)
    /\ is_first_byte'        = next_is_first_byte(in)
    /\ fifo_committed'       = FifoNextCommitted(in)
    /\ fifo_pending'         = FifoNextPending(in)
    /\ bd_first'             = IF in.rx_valid /\ in.rx_next THEN rx_last(in) ELSE bd_first
    /\ resp'                 = Response(in)
    /\ delivered'            = IF stream_valid /\ in.stream_ready
                               THEN Append(delivered, StreamToken)
                               ELSE delivered
    /\ committed_log'        = IF write_commit(in)
                               THEN committed_log \o fifo_pending
                               ELSE committed_log

\* --------------------------------------------------------------- packet log
cur == npkts

\* The packet on the bus is addressed to this endpoint.
ours == token.endpoint = EndpointNumber

NoPacket ==
    [ pid |-> 0, len |-> 0, dup |-> FALSE, end |-> "none", response |-> "none",
      accepted |-> FALSE, retry |-> FALSE ]

NewPacket(pid, len) ==
    [ pid |-> pid, len |-> len,
      dup      |-> (pid # expected_data_toggle),
      end      |-> "none",
      response |-> "none",
      accepted |-> FALSE,
      \* the host sends again the packet this endpoint has just NAKed
      retry    |-> (pkt.response = "nak" /\ pkt.end = "complete"
                    /\ pkt.pid = pid /\ pkt.len = len) ]

\* ------------------------------------------- reset values of the IN side
NoWord == [ valid |-> FALSE, payload |-> 0, first |-> FALSE, last |-> FALSE ]

NoSig ==
    [ state |-> "IDLE", bytes_to_send |-> 0, data_shift |-> 0, byte_ready |-> FALSE,
      word_valid |-> FALSE, word_ready |-> TRUE, byte_valid |-> FALSE ]

MBReset ==
    /\ mb_state = "IDLE"
    /\ data_shift = 0
    /\ first_latched = FALSE
    /\ last_latched = FALSE
    /\ bytes_to_send = 0
    /\ word = NoWord
    /\ mb_words = << >>
    /\ mb_bytes = << >>
    /\ mb_sig = NoSig

NoTxPacket == [ waiting |-> FALSE, len |-> 0, ends |-> FALSE ]

TxReset ==
    /\ tx_fill = 0
    /\ tx_packet = NoTxPacket
    /\ tx_len = 0
    /\ tx_lens = << >>
    /\ tx_sent = << >>

\* ------------------------------------------------------------------ actions
OutReset ==
    /\ expected_data_toggle = 0
    /\ is_first_byte = TRUE
    /\ fifo_committed = << >>
    /\ fifo_pending = << >>
    /\ bd_first = TRUE
    /\ token = [endpoint |-> EndpointNumber, kind |-> "OUT"]
    /\ rx_pid_toggle = 0
    /\ phase = "IDLE"
    /\ rx_len = 0
    /\ sent = 0
    /\ resp = NoResponse
    /\ npkts = 0
    /\ pkt = NoPacket
    /\ accepted_count = 0
    /\ delivered = << >>
    /\ committed_log = << >>

\* A cycle without bus activity; the consumer may take a byte.  (The cycles in
\* which a token arrives are quiet for the endpoint too; the consumer's reads
\* around them are the idle cycles before and after.)
IdleCycle ==
    \E r \in BOOLEAN :
        /\ Clock(Quiet(r))
        /\ UNCHANGED << token, rx_pid_toggle, phase, rx_len, sent, npkts, pkt, accepted_count >>

\* The host sends an OUT token for this endpoint and the PID of a data packet
\* of `len` bytes.
OutToken ==
    \E pid \in {0, 1}, len \in 0..MaxPacketSize :
        /\ phase = "IDLE"
        /\ cur < MaxPackets
        /\ Clock(Quiet(FALSE))
        /\ token' = [endpoint |-> EndpointNumber, kind |-> "OUT"]
        /\ rx_pid_toggle' = pid
        /\ phase' = "DATA"
        /\ rx_len' = len
        /\ sent' = 0
        /\ npkts' = npkts + 1
        /\ pkt' = NewPacket(pid, len)
        /\ UNCHANGED accepted_count

\* The host sends an OUT token and a data packet to another endpoint.
ForeignOutToken ==
    \E e \in Endpoints \ {EndpointNumber}, pid \in {0, 1},
       len \in {0, MaxPacketSize} :
        /\ phase = "IDLE"
        /\ Clock(Quiet(FALSE))
        /\ token' = [endpoint |-> e, kind |-> "OUT"]
        /\ rx_pid_toggle' = pid
        /\ phase' = "DATA"
        /\ rx_len' = len
        /\ sent' = 0
        /\ UNCHANGED << npkts, pkt, accepted_count >>

\* One byte of the current packet comes out of the boundary detector.
RxByte ==
    \E r \in BOOLEAN :
        /\ phase = "DATA"
        /\ sent < rx_len
        /\ Clock([Quiet(r) EXCEPT !.rx_valid = TRUE, !.rx_next = TRUE,
                                  !.rx_payload = Payload(IF ours THEN cur ELSE 0, sent + 1),
                                  !.rx_last = (sent + 1 = rx_len)])
        /\ sent' = sent + 1
        /\ UNCHANGED << token, rx_pid_toggle, phase, rx_len, npkts, pkt, accepted_count >>

\* The packet ends with a valid CRC.
RxComplete ==
    \E r \in BOOLEAN :
        /\ phase = "DATA"
        /\ sent = rx_len
        /\ Clock([Quiet(r) EXCEPT !.complete_out = TRUE])
        /\ phase' = "HANDSHAKE"
        /\ rx_len' = 0
        /\ sent' = 0
        /\ pkt' = IF ours THEN [pkt EXCEPT !.end = "complete"] ELSE pkt
        /\ UNCHANGED << token, rx_pid_toggle, npkts, accepted_count >>

\* The packet ends with a CRC failure; no handshake follows.
RxInvalid ==
    \E r \in BOOLEAN :
        /\ phase = "DATA"
        /\ sent = rx_len
        /\ Clock([Quiet(r) EXCEPT !.invalid_out = TRUE])
        /\ phase' = "IDLE"
        /\ rx_len' = 0
        /\ sent' = 0
        /\ pkt' = IF ours THEN [pkt EXCEPT !.end = "invalid"] ELSE pkt
        /\ UNCHANGED << token, rx_pid_toggle, npkts, accepted_count >>

Responded(in) ==
    IF handshakes_out_ack(in) THEN "ack"
    ELSE IF handshakes_out_nak(in) THEN "nak" ELSE "silent"

\* The acceptance event: the data packet is ACKed as received.
Accepts(in) == data_response_requested(in) /\ okay_to_receive

\* The interpacket delay has elapsed: rx_ready_for_response strobes.
DataResponse ==
    \E r \in BOOLEAN :
        LET in == [Quiet(r) EXCEPT !.rx_ready_for_response = TRUE] IN
        /\ phase = "HANDSHAKE"
        /\ Clock(in)
        /\ phase' = "IDLE"
        /\ pkt' = IF ours
                  THEN [pkt EXCEPT !.response = Responded(in),
                                   !.accepted = Accepts(in)]
                  ELSE pkt
        /\ accepted_count' = IF Accepts(in) THEN accepted_count + 1 ELSE accepted_count
        /\ UNCHANGED << token, rx_pid_toggle, rx_len, sent, npkts >>

\* The host sends a PING token.
PingToken ==
    \E e \in Endpoints :
        /\ phase = "IDLE"
        /\ Clock(Quiet(FALSE))
        /\ token' = [endpoint |-> e, kind |-> "PING"]
        /\ phase' = "PING"
        /\ UNCHANGED << rx_pid_toggle, rx_len, sent, npkts, pkt, accepted_count >>

\* The tokenizer asks for the response to the PING token.
PingResponse ==
    \E r \in BOOLEAN :
        /\ phase = "PING"
        /\ Clock([Quiet(r) EXCEPT !.ready_for_response = TRUE])
        /\ phase' = "IDLE"
        /\ UNCHANGED << token, rx_pid_toggle, rx_len, sent, npkts, pkt, accepted_count >>

Init == OutReset /\ MBReset /\ TxReset

Next ==
    \/ IdleCycle
    \/ OutToken
    \/ ForeignOutToken
    \/ RxByte
    \/ RxComplete
    \/ RxInvalid
    \/ DataResponse
    \/ PingToken
    \/ PingResponse

Spec == Init /\ [][Next]_vars

\* ====================================================================
\* USBMultibyteStreamInEndpoint: words in, bytes out, least significant
\* byte first.  One action is one clock edge of the "usb" domain;
\* `byte_ready` is byte_stream.ready, driven by the inner byte endpoint.
\* ====================================================================

\* Byte i (0-based, least significant first) of the k-th word presented.
WordByte(k, i) == (k * ByteWidth + i) % 256

RECURSIVE WordFrom(_, _)
WordFrom(k, i) ==
    IF i = ByteWidth THEN 0 ELSE WordByte(k, i) + 256 * WordFrom(k, i + 1)

WordValue(k) == WordFrom(k, 0)

\* Variant that presents the most significant byte of the register.
byte_stream_payload_high == (data_shift \div (256 ^ (ByteWidth - 1))) % 256

byte_stream_payload == data_shift % 256

byte_stream_valid == mb_state = "TRANSMIT"

mb_is_first_byte == bytes_to_send = ByteWidth - 1
mb_is_last_byte  == bytes_to_send = 0

byte_stream_first(byte_ready) ==
    mb_state = "TRANSMIT" /\ byte_ready /\ first_latched /\ mb_is_first_byte

byte_stream_last(byte_ready) ==
    mb_state = "TRANSMIT" /\ byte_ready /\ last_latched /\ mb_is_last_byte

\* Variant that takes a new word whenever a byte is accepted.
word_stream_ready_on_any_byte(byte_ready) ==
    \/ mb_state = "IDLE"
    \/ (mb_state = "TRANSMIT" /\ byte_ready)

word_stream_ready(byte_ready) ==
    \/ mb_state = "IDLE"
    \/ (mb_state = "TRANSMIT" /\ byte_ready /\ ~(bytes_to_send > 0))

\* The cycle latches the presented word / shifts the register by one byte.
latch_word(byte_ready) == word.valid /\ word_stream_ready(byte_ready)
shift_byte(byte_ready) == mb_state = "TRANSMIT" /\ byte_ready /\ bytes_to_send > 0

next_data_shift(byte_ready) ==
    IF latch_word(byte_ready) THEN word.payload
    ELSE IF shift_byte(byte_ready) THEN data_shift \div 256
    ELSE data_shift

next_first_latched(byte_ready) ==
    IF latch_word(byte_ready) THEN word.first ELSE first_latched

next_last_latched(byte_ready) ==
    IF latch_word(byte_ready) THEN word.last ELSE last_latched

next_bytes_to_send(byte_ready) ==
    IF latch_word(byte_ready) THEN ByteWidth - 1
    ELSE IF shift_byte(byte_ready) THEN bytes_to_send - 1
    ELSE bytes_to_send

\* Variant of the FSM that goes through IDLE after every word.
next_mb_state_idle_after_word(byte_ready) ==
    IF mb_state = "IDLE"
    THEN IF word.valid THEN "TRANSMIT" ELSE "IDLE"
    ELSE IF byte_ready /\ ~(bytes_to_send > 0) THEN "IDLE" ELSE "TRANSMIT"

\* Variant of the FSM that never leaves IDLE.
next_mb_state_stays_idle(byte_ready) ==
    IF mb_state = "IDLE" THEN "IDLE"
    ELSE IF byte_ready /\ ~(bytes_to_send > 0) /\ ~word.valid THEN "IDLE" ELSE "TRANSMIT"

\* Variant of the FSM that gives up a byte the byte stream does not take.
next_mb_state_idle_on_stall(byte_ready) ==
    IF mb_state = "IDLE"
    THEN IF word.valid THEN "TRANSMIT" ELSE "IDLE"
    ELSE IF ~byte_ready \/ (~(bytes_to_send > 0) /\ ~word.valid) THEN "IDLE" ELSE "TRANSMIT"

next_mb_state(byte_ready) ==
    IF mb_state = "IDLE"
    THEN IF word.valid THEN "TRANSMIT" ELSE "IDLE"
    ELSE IF byte_ready /\ ~(bytes_to_send > 0) /\ ~word.valid THEN "IDLE" ELSE "TRANSMIT"

ByteToken(byte_ready) ==
    [ payload |-> byte_stream_payload,
      first   |-> byte_stream_first(byte_ready),
      last    |-> byte_stream_last(byte_ready) ]

Signals(byte_ready) ==
    [ state |-> mb_state, bytes_to_send |-> bytes_to_send, data_shift |-> data_shift,
      byte_ready |-> byte_ready, word_valid |-> word.valid,
      word_ready |-> word_stream_ready(byte_ready), byte_valid |-> byte_stream_valid ]

\* What the producer presents in the next cycle: it holds a word that was not
\* taken, otherwise it presents the next word or nothing.
NextWords(taken) ==
    IF word.valid /\ ~taken
    THEN {word}
    ELSE {NoWord} \cup
         { [ valid |-> TRUE, payload |-> WordValue(Len(mb_words) + 1 + (IF taken THEN 1 ELSE 0)),
             first |-> f, last |-> l ] :
           f \in (IF Len(mb_words) + (IF taken THEN 1 ELSE 0) < MaxWords THEN BOOLEAN ELSE {}),
           l \in BOOLEAN }

\* One clock edge of the adapter.
MBClock(byte_ready) ==
    /\ mb_state'      = next_mb_state(byte_ready)
    /\ data_shift'    = next_data_shift(byte_ready)
    /\ first_latched' = next_first_latched(byte_ready)
    /\ last_latched'  = next_last_latched(byte_ready)
    /\ bytes_to_send' = next_bytes_to_send(byte_ready)
    /\ mb_words' = IF latch_word(byte_ready) THEN Append(mb_words, word) ELSE mb_words
    /\ mb_bytes' = IF byte_stream_valid /\ byte_ready
                   THEN Append(mb_bytes, ByteToken(byte_ready))
                   ELSE mb_bytes
    /\ mb_sig'   = Signals(byte_ready)
    /\ word' \in NextWords(latch_word(byte_ready))
    /\ UNCHANGED << out_vars, tx_vars >>

\* A cycle in the IDLE state.
MBIdle ==
    /\ mb_state = "IDLE"
    /\ \E byte_ready \in BOOLEAN : MBClock(byte_ready)

\* A cycle in the TRANSMIT state.
MBTransmit ==
    /\ mb_state = "TRANSMIT"
    /\ \E byte_ready \in BOOLEAN : MBClock(byte_ready)

MBNext == MBIdle \/ MBTransmit

SpecMB == Init /\ [][MBNext]_vars

\* A TRANSMIT cycle in which the inner byte stream is ready.
MBTransmitReady ==
    /\ mb_state = "TRANSMIT"
    /\ MBClock(TRUE)

\* The clock keeps running, and the inner byte stream is ready in infinitely
\* many of the cycles in which the adapter presents a byte.
SpecMBLive ==
    /\ Init /\ [][MBNext]_vars
    /\ WF_vars(MBNext)
    /\ SF_vars(MBTransmitReady)

\* ====================================================================
\* USBStreamInEndpoint: the byte stream feeds a USBInTransferManager that
\* runs with generate_zlps = 1.
\* ====================================================================
MaxTransferLen == 2 * MaxPacketSize

\* Variant with ZLP generation switched off.
generate_zlps_off == FALSE

generate_zlps == TRUE

tx_manager_active(endpoint) == endpoint = EndpointNumber

\* The transfer manager takes a byte from the stream; a full packet or the
\* byte marked `last` closes the packet, `last` closes the transfer.
TxByte ==
    \E last \in BOOLEAN :
        LET closes == last \/ tx_fill + 1 = MaxPacketSize IN
        /\ ~tx_packet.waiting
        /\ Len(tx_lens) < MaxTransfers
        /\ last \/ tx_len + 1 < MaxTransferLen
        /\ tx_fill'   = IF closes THEN 0 ELSE tx_fill + 1
        /\ tx_packet' = IF closes
                        THEN [ waiting |-> TRUE, len |-> tx_fill + 1, ends |-> last ]
                        ELSE tx_packet
        /\ tx_len'    = IF last THEN 0 ELSE tx_len + 1
        /\ tx_lens'   = IF last THEN Append(tx_lens, tx_len + 1) ELSE tx_lens
        /\ UNCHANGED << tx_sent, out_vars, mb_vars >>

\* The host sends an IN token while a packet is ready.  For this endpoint the
\* packet is sent; when the host ACKs it the manager moves on, to a ZLP if
\* the packet was full, ended the transfer and ZLPs are generated.
InToken ==
    \E endpoint \in Endpoints, ack \in BOOLEAN :
        /\ tx_packet.waiting
        /\ IF tx_manager_active(endpoint) /\ ack
           THEN /\ tx_sent'   = Append(tx_sent, tx_packet.len)
                /\ tx_packet' = IF /\ generate_zlps
                                   /\ tx_packet.len = MaxPacketSize
                                   /\ tx_packet.ends
                                THEN [ waiting |-> TRUE, len |-> 0, ends |-> TRUE ]
                                ELSE NoTxPacket
           ELSE UNCHANGED << tx_sent, tx_packet >>
        /\ UNCHANGED << tx_fill, tx_len, tx_lens, out_vars, mb_vars >>

INNext == TxByte \/ InToken

SpecIN == Init /\ [][INNext]_vars

\* ====================================================================
\* Either producing endpoint: the OUT endpoint's consumer stream or the
\* multibyte adapter's inner byte stream.  Each behaviour is a behaviour
\* of one of the two modules; the other stays in reset.
\* ====================================================================
StreamsNext ==
    \/ (MBReset /\ Next)
    \/ (OutReset /\ MBNext)

SpecStreams == Init /\ [][StreamsNext]_vars

\* ================================================================ properties
\* What the consumer has been given and what the FIFO shows it next, as stream
\* tokens (bit 9 of a FIFO entry is `first`, bit 8 is `last`).
AsToken(e)  == [payload |-> e.data, first |-> e.bit9, last |-> e.bit8]
Tokens(q)   == [i \in 1..Len(q) |-> AsToken(q[i])]
Visible     == delivered \o Tokens(fifo_committed)
Everything  == Visible \o Tokens(fifo_pending)

\* The tokens of the k-th packet within a sequence of tokens.
IsOfPacket(t, k) == PacketOf(t.payload) = k
OfPacket(q, k)   == SelectSeq(q, LAMBDA t : IsOfPacket(t, k))

\* The tokens a packet of `len` bytes, the k-th one, is to be delivered as.
ExpectedTokens(k, len) ==
    [i \in 1..len |-> [payload |-> Payload(k, i), first |-> (i = 1), last |-> (i = len)]]

\* ---------------------------------------------------------------------- C1
\* C1: a packet ACKed on the acceptance path is on the consumer side (delivered
\* or committed in the FIFO) complete: all its bytes, in order, once, `first`
\* on the first byte and `last` on the final one.
C1_AcceptedPacketIsWhole ==
    pkt.accepted => OfPacket(Visible, npkts) = ExpectedTokens(npkts, pkt.len)

\* ---------------------------------------------------------------------- C2
\* C2: a packet answered with NAK leaves none of its bytes in the FIFO or on
\* the consumer stream.
C2_NakAcceptsNoData ==
    pkt.response = "nak" => OfPacket(Everything, npkts) = << >>

\* ---------------------------------------------------------------------- C3
\* C3: a packet whose DATA PID differs from expected_data_toggle is ACKed when
\* its response is requested, is not counted as accepted, writes no byte to the
\* FIFO and leaves expected_data_toggle as it was (still different from the
\* packet's PID); no byte of it ever reaches the consumer.
C3_DuplicateIsAckedAndIgnored ==
    pkt.dup =>
        /\ OfPacket(Everything, npkts) = << >>
        /\ expected_data_toggle # pkt.pid
        /\ ~pkt.accepted
        /\ pkt.response \in {"none", "ack"}

\* A retransmission of the accepted DATA0 packet has been ACKed while the
\* packet accepted before it is with the consumer or in the FIFO.
C3_Witness ==
    /\ pkt.dup /\ pkt.pid = 0 /\ pkt.len = MaxPacketSize
    /\ pkt.end = "complete" /\ pkt.response = "ack"
    /\ accepted_count = 1
    /\ Len(Visible) = MaxPacketSize

\* ---------------------------------------------------------------------- C4
\* C4: the consumer side never holds a byte of the packet being received or of
\* a packet that ended with the invalid event; tokens become visible only in
\* the step of the complete event of the packet they belong to, and what is
\* visible stays as it is.
C4_CurrentPacketHidden ==
    pkt.end # "complete" => OfPacket(Visible, npkts) = << >>

C4_VisibleOnlyByComplete ==
    /\ Len(Visible') >= Len(Visible)
    /\ SubSeq(Visible', 1, Len(Visible)) = Visible
    /\ \A i \in (Len(Visible) + 1)..Len(Visible') :
            /\ IsOfPacket(Visible'[i], npkts)
            /\ pkt.end = "none" /\ pkt'.end = "complete"

C4_OnlyCompletePacketsVisible ==
    [] C4_CurrentPacketHidden /\ [][C4_VisibleOnlyByComplete]_vars

\* A packet with data ended with a CRC failure after an earlier packet was
\* committed and partly handed to the consumer.
C4_Witness ==
    /\ pkt.end = "invalid" /\ pkt.len = MaxPacketSize /\ ~pkt.dup
    /\ delivered # << >>
    /\ fifo_committed # << >>

\* ---------------------------------------------------------------------- C5
\* C5: expected_data_toggle is the parity of the number of accepted packets.
C5_ToggleIsParityOfAccepted ==
    expected_data_toggle = accepted_count % 2

C5_Witness ==
    /\ accepted_count = 2
    /\ pkt.accepted
    /\ expected_data_toggle = 0

\* ---------------------------------------------------------------------- C6
\* C6: a PING response requested for this endpoint while max_packet_size bytes
\* are free and the PID condition holds is answered with ACK and not with NAK.
C6_PingWithSpaceIsAcked ==
    ( /\ resp.kind = "ping"
      /\ token = [endpoint |-> EndpointNumber, kind |-> "PING"]
      /\ resp.space_ok
      /\ resp.pid_ok )
    => (resp.ack /\ ~resp.nak)

\* ---------------------------------------------------------------------- C7
\* C7: while exactly one committed max-size packet is held in the FIFO (the
\* consumer has taken none of it), a further max-size packet with the expected
\* PID and a valid CRC is ACKed and is in the FIFO complete.
HoldsOnePacket ==
    \E j \in 1..(npkts - 1) :
        SelectSeq(Tokens(fifo_committed), LAMBDA t : ~IsOfPacket(t, npkts))
            = ExpectedTokens(j, MaxPacketSize)

C7_SecondPacketReceivedWhileFirstHeld ==
    ( /\ HoldsOnePacket
      /\ pkt.len = MaxPacketSize /\ ~pkt.dup
      /\ pkt.end = "complete" /\ pkt.response # "none" )
    => /\ pkt.response = "ack"
       /\ OfPacket(Tokens(fifo_committed), npkts) = ExpectedTokens(npkts, MaxPacketSize)

\* ---------------------------------------------------------------------- C8
\* C8: what the consumer was given, followed by what the FIFO still holds for
\* it, is the sequence of committed entries in commit order: nothing dropped,
\* duplicated or reordered, whatever the consumer did with ready.
C8_DeliveredAreCommittedInOrder ==
    Visible = Tokens(committed_log)

\* The consumer has taken bytes, and under backpressure the FIFO holds data of
\* more than one packet behind them.
C8_Witness ==
    /\ Len(delivered) >= 1
    /\ Len(fifo_committed) >= 2
    /\ \E i, j \in 1..Len(fifo_committed) :
            PacketOf(fifo_committed[i].data) # PacketOf(fifo_committed[j].data)

\* ---------------------------------------------------------------------- C9
\* C9: the FIFO never holds more than buffer_size entries, and an entry is added
\* only in a cycle in which max_packet_size bytes are free, the token is an OUT
\* token for this endpoint and the DATA PID is the expected one.
WrittenSoFar == Len(committed_log) + Len(fifo_pending)

C9_WithinCapacity == fifo_level <= BufferSize

C9_WriteOnlyWithReservedSpace ==
    WrittenSoFar' > WrittenSoFar =>
        /\ fifo_space_available >= MaxPacketSize
        /\ token = [endpoint |-> EndpointNumber, kind |-> "OUT"]
        /\ rx_pid_toggle = expected_data_toggle

C9_Capacity ==
    [] C9_WithinCapacity /\ [][C9_WriteOnlyWithReservedSpace]_vars

\* A byte was written with exactly max_packet_size bytes free while the
\* consumer left committed data in the FIFO.
C9_Witness ==
    /\ fifo_pending # << >>
    /\ fifo_committed # << >>
    /\ fifo_level = BufferSize - MaxPacketSize + 1

\* --------------------------------------------------------------------- C10
\* C10: in the sequence of transferred tokens, a token is first-marked exactly
\* when it is the first token or follows a last-marked token.
C10_DeliveredWellFramed ==
    \A i \in 1..Len(delivered) :
        delivered[i].first = (i = 1 \/ delivered[i - 1].last)

\* --------------------------------------------------------------------- C13
\* C13: expected_data_toggle changes in a step only if that step is the
\* acceptance event of an OUT data packet (the response cycle of a packet for
\* this endpoint with space and a matching PID, answered with ACK), and every
\* acceptance flips it; every other step leaves it alone.
IsAcceptanceStep ==
    /\ phase = "HANDSHAKE" /\ phase' = "IDLE"
    /\ targeting_endpoint /\ sufficient_space /\ expected_pid_match
    /\ resp'.kind = "data" /\ resp'.ack /\ ~resp'.nak
    /\ pkt'.accepted /\ ~pkt.accepted
    /\ accepted_count' = accepted_count + 1

C13_ToggleStep ==
    /\ (expected_data_toggle' # expected_data_toggle) => IsAcceptanceStep
    /\ (accepted_count' # accepted_count) =>
            expected_data_toggle' = 1 - expected_data_toggle

C13_ToggleOnlyOnAcceptance == [][C13_ToggleStep]_vars

\* The toggle went to 1 with the first acceptance and stayed there while a
\* retransmission was skipped and a PING was answered.
C13_Witness ==
    /\ expected_data_toggle = 1 /\ accepted_count = 1
    /\ pkt.dup /\ pkt.response = "ack"
    /\ resp.kind = "ping" /\ token.endpoint = EndpointNumber

\* --------------------------------------------------------------------- C14
\* C14: ACK and NAK are never asserted together; in a cycle with a DATA or PING
\* response requested for this endpoint exactly one of them is asserted, NAK
\* exactly when the acceptance conditions (space for a maximum-size packet
\* and the expected PID) fail and the case is not the toggle-mismatch skip of
\* a data packet; in every other cycle neither is asserted.
RespForUs    == resp.kind # "none" /\ token.endpoint = EndpointNumber
RespOkay     == resp.space_ok /\ resp.pid_ok
RespSkip     == resp.kind = "data" /\ ~resp.pid_ok

C14_AckNakExclusive ==
    /\ ~(resp.ack /\ resp.nak)
    /\ RespForUs => (resp.ack # resp.nak)
    /\ RespForUs => (resp.nak = (~RespOkay /\ ~RespSkip))
    /\ ~RespForUs => (~resp.ack /\ ~resp.nak)

\* --------------------------------------------------------------------- C16
\* C16: the speculative entries in the FIFO all belong to the packet being
\* received, so no run of an earlier packet is open when a packet's first byte
\* is written, and the entries one commit makes visible belong to one packet.
C16_PendingIsCurrentPacket ==
    \A i \in 1..Len(fifo_pending) : PacketOf(fifo_pending[i].data) = npkts

C16_CommitOnePacket ==
    \A i, j \in (Len(committed_log) + 1)..Len(committed_log') :
        PacketOf(committed_log'[i].data) = PacketOf(committed_log'[j].data)

C16_CommitProtocol ==
    [] C16_PendingIsCurrentPacket /\ [][C16_CommitOnePacket]_vars

\* A packet is being written speculatively after an earlier packet with data
\* was rolled back by the invalid event.
C16_Witness ==
    /\ fifo_pending # << >>
    /\ npkts >= 2
    /\ committed_log = << >>
    /\ phase = "DATA" /\ sent = rx_len /\ rx_len = MaxPacketSize

\* --------------------------------------------------------------------- C17
\* C17: in a cycle in which the token's endpoint number is not this endpoint's,
\* neither ACK nor NAK is asserted, nothing is written, committed or discarded,
\* expected_data_toggle stays, and the consumer side changes only by the
\* consumer taking the head of the FIFO.
C17_ForeignStep ==
    (token.endpoint # EndpointNumber) =>
        /\ ~resp'.ack /\ ~resp'.nak
        /\ fifo_pending' = fifo_pending
        /\ committed_log' = committed_log
        /\ expected_data_toggle' = expected_data_toggle
        /\ accepted_count' = accepted_count
        /\ Visible' = Visible

C17_ForeignTrafficIgnored == [][C17_ForeignStep]_vars

\* The response of a data packet for another endpoint was requested while this
\* endpoint held committed data and had accepted a packet before.
C17_Witness ==
    /\ token = [endpoint |-> EndpointNumber + 1, kind |-> "OUT"]
    /\ resp.kind = "data"
    /\ fifo_committed # << >>
    /\ accepted_count >= 1

\* --------------------------------------------------------------------- C15
\* C15: a packet with the expected PID, a valid CRC and at most MaxPacketSize
\* bytes that was NAKed for lack of space and is sent again is eventually
\* ACKed and its bytes reach the consumer. Once the retry is accepted the host
\* does not send it again, so when the FIFO has drained after the acceptance
\* the consumer has received every byte of the packet, from the transmission
\* that was NAKed or from the retry.
ByteIndex(p) == p % (MaxPacketSize + 1)

ReachedConsumer(i) ==
    \E n \in 1..Len(delivered) :
        /\ PacketOf(delivered[n].payload) \in {npkts - 1, npkts}
        /\ ByteIndex(delivered[n].payload) = i

C15_RetriedPacketReachesConsumer ==
    ( /\ pkt.retry /\ pkt.accepted
      /\ fifo_committed = << >> /\ fifo_pending = << >> )
    => \A i \in 1..pkt.len : ReachedConsumer(i)

\* --------------------------------------------------------------------- C11
\* C11: the tokens transferred on the inner byte stream are the bytes of the
\* accepted words, word by word, least significant byte first, ByteWidth per
\* word; `first` is set only on byte 0 of a word accepted with first, `last`
\* only on byte ByteWidth - 1 of a word accepted with last, whatever the
\* byte stream's ready pattern.
ExpectedByte(n) ==
    LET k == (n - 1) \div ByteWidth + 1
        i == (n - 1) % ByteWidth
    IN  [ payload |-> WordByte(k, i),
          first   |-> (mb_words[k].first /\ i = 0),
          last    |-> (mb_words[k].last /\ i = ByteWidth - 1) ]

Unsent == IF mb_state = "TRANSMIT" THEN bytes_to_send + 1 ELSE 0

C11_BytesAreWordsLsbFirst ==
    /\ Len(mb_bytes) = ByteWidth * Len(mb_words) - Unsent
    /\ \A n \in 1..Len(mb_bytes) : mb_bytes[n] = ExpectedByte(n)

\* A transfer of two words, first on the first and last on the second, has
\* gone out completely.
C11_Witness ==
    /\ Len(mb_words) = 2 /\ mb_state = "IDLE"
    /\ mb_words[1].first /\ ~mb_words[1].last
    /\ ~mb_words[2].first /\ mb_words[2].last
    /\ Len(mb_bytes) = 2 * ByteWidth

\* --------------------------------------------------------------------- C12
\* C12: with generate_zlps = 1, when every transfer the stream has ended is
\* sent and ACKed, the packets are, per transfer, the full packets followed by
\* exactly one zero-length packet if the length is a multiple of
\* MaxPacketSize, and by the short final packet and no ZLP otherwise.
FullPackets(n) == [ i \in 1..(n \div MaxPacketSize) |-> MaxPacketSize ]

PacketsOf(n) ==
    IF n % MaxPacketSize = 0
    THEN FullPackets(n) \o << 0 >>
    ELSE FullPackets(n) \o << n % MaxPacketSize >>

RECURSIVE ExpectedPackets(_)
ExpectedPackets(lens) ==
    IF lens = << >> THEN << >>
    ELSE PacketsOf(Head(lens)) \o ExpectedPackets(Tail(lens))

C12_ZlpAfterFullFinalPacket ==
    (~tx_packet.waiting /\ tx_fill = 0 /\ tx_len = 0)
    => tx_sent = ExpectedPackets(tx_lens)

\* A transfer of exactly one full packet got its ZLP, a one-byte transfer
\* after it got none.
C12_Witness ==
    /\ tx_lens = << MaxPacketSize, 1 >>
    /\ tx_sent = << MaxPacketSize, 0, 1 >>
    /\ ~tx_packet.waiting

\* --------------------------------------------------------------------- C18
\* C18: on the OUT endpoint's consumer stream and on the adapter's inner byte
\* stream, valid stays asserted and the presented payload stays the same
\* until a cycle with valid and ready; a unit is transferred exactly in such
\* cycles.
C18_ConsumerStreamStep ==
    /\ (stream_valid /\ delivered' = delivered)
        => (stream_valid' /\ StreamToken' = StreamToken)
    /\ (delivered' # delivered)
        => (stream_valid /\ delivered' = Append(delivered, StreamToken))

C18_ByteStreamStep ==
    /\ (byte_stream_valid /\ mb_bytes' = mb_bytes)
        => (byte_stream_valid' /\ byte_stream_payload' = byte_stream_payload)
    /\ (mb_bytes' # mb_bytes) <=> (mb_sig'.byte_valid /\ mb_sig'.byte_ready)
    /\ (mb_bytes' # mb_bytes)
        => /\ Len(mb_bytes') = Len(mb_bytes) + 1
           /\ mb_bytes'[Len(mb_bytes')].payload = byte_stream_payload

C18_ValidHeldUntilTransfer ==
    [][C18_ConsumerStreamStep /\ C18_ByteStreamStep]_vars

\* The byte stream did not take the last byte of a word in the last cycle,
\* after it had taken an earlier byte.
C18_Witness ==
    /\ mb_sig.byte_valid /\ ~mb_sig.byte_ready
    /\ mb_state = "TRANSMIT" /\ bytes_to_send = 0
    /\ Len(mb_bytes) >= 1

\* --------------------------------------------------------------------- C19
\* C19: the adapter's transitions.  TRANSMIT, byte accepted, bytes remain: stay
\* in TRANSMIT, shift right by one byte, decrement the counter, take no word.
\* TRANSMIT, last byte accepted, word valid: the word is taken in that cycle
\* and the state stays TRANSMIT.  TRANSMIT, last byte accepted, no word: IDLE.
\* IDLE, word valid: latch it with the counter at ByteWidth - 1, go to TRANSMIT.
LastWord == mb_words[Len(mb_words)]

Latched ==
    /\ mb_state = "TRANSMIT"
    /\ bytes_to_send = ByteWidth - 1
    /\ mb_words # << >>
    /\ data_shift = LastWord.payload
    /\ first_latched = LastWord.first
    /\ last_latched = LastWord.last

C19_Transitions ==
    LET s == mb_sig
        byte_accepted == s.state = "TRANSMIT" /\ s.byte_ready
    IN  /\ (byte_accepted /\ s.bytes_to_send > 0)
            => /\ mb_state = "TRANSMIT"
               /\ data_shift = s.data_shift \div 256
               /\ bytes_to_send = s.bytes_to_send - 1
               /\ ~s.word_ready
        /\ (byte_accepted /\ s.bytes_to_send = 0 /\ s.word_valid)
            => (s.word_ready /\ Latched)
        /\ (byte_accepted /\ s.bytes_to_send = 0 /\ ~s.word_valid)
            => mb_state = "IDLE"
        /\ (s.state = "IDLE" /\ s.word_valid)
            => (s.word_ready /\ Latched)

\* A word was taken in the cycle that sent the last byte of the word before.
C19_Witness ==
    /\ mb_sig.state = "TRANSMIT" /\ mb_sig.byte_ready
    /\ mb_sig.bytes_to_send = 0 /\ mb_sig.word_valid
    /\ mb_state = "TRANSMIT"
    /\ Len(mb_words) = 2

\* --------------------------------------------------------------------- C20
\* C20: bytes_to_send stays within 0..ByteWidth - 1; the word stream's ready is
\* asserted only in IDLE or in the TRANSMIT cycle in which the last byte
\* (bytes_to_send = 0) is accepted, so no word is taken while bytes of the
\* current word are unsent, and every word taken gives ByteWidth byte
\* transfers.
C20_CounterAndReady ==
    /\ bytes_to_send \in 0..(ByteWidth - 1)
    /\ mb_sig.bytes_to_send \in 0..(ByteWidth - 1)
    /\ mb_sig.word_ready
        => \/ mb_sig.state = "IDLE"
           \/ /\ mb_sig.state = "TRANSMIT"
              /\ mb_sig.byte_ready
              /\ mb_sig.bytes_to_send = 0
    /\ mb_state = "IDLE" => Len(mb_bytes) = ByteWidth * Len(mb_words)
    /\ mb_state = "TRANSMIT"
        => Len(mb_bytes) = ByteWidth * (Len(mb_words) - 1)
                           + (ByteWidth - 1 - bytes_to_send)

\* All the words were taken and all their bytes sent.
C20_Witness ==
    /\ mb_state = "IDLE"
    /\ Len(mb_words) = MaxWords
    /\ Len(mb_bytes) = ByteWidth * MaxWords

\* --------------------------------------------------------------------- C21
\* C21: with the inner byte stream ready infinitely often, every word taken
\* from the word stream has all ByteWidth of its bytes transferred eventually,
\* and if from some point on the producer presents no valid word the adapter
\* ends up in IDLE for good, with the word stream's ready asserted.
C21_WordsAreSent ==
    \A k \in 1..MaxWords :
        (Len(mb_words) >= k) ~> (Len(mb_bytes) >= ByteWidth * k)

C21_ReturnsToIdle ==
    (<>[](~word.valid))
    => <>[](mb_state = "IDLE" /\ word_stream_ready(FALSE))

C21_NeverStuckInTransmit == C21_WordsAreSent /\ C21_ReturnsToIdle

\* The adapter has just returned to IDLE from the last byte of the only word
\* taken, and the producer presents nothing.
C21_Witness ==
    /\ mb_state = "IDLE" /\ mb_sig.state = "TRANSMIT"
    /\ Len(mb_words) = 1 /\ Len(mb_bytes) = ByteWidth
    /\ ~word.valid

====
